---- MODULE Spec2Model ----
(***************************************************************************)
(* Model of the road-network graph loader and largest-connected-component *)
(* extractor of ex13/src/graph.rs, and of the city-name aggregations of    *)
(* ex04/src/analyzer.rs.                                                   *)
(*                                                                         *)
(* Vectors are 0-based in the source and 1-based here: element k of a Rust *)
(* Vec is element k + 1 of the sequence that models it.                    *)
(***************************************************************************)
EXTENDS Integers, Sequences, FiniteSets, TLC

\* ------------------------------------------------------------------ bounds
\* Largest value a header line (node_count, arc_count) or an id field carries.
MaxCount == 4
\* Largest number of arc lines that reach the arc branch during one load.
MaxArcLines == 2
\* Largest number of lines read during one load, over all archive entries.
MaxLines == 8
\* Largest number of blank or comment lines in one archive entry.
MaxSkip == 1
\* Largest number of archive entries.
MaxStreams == 2
\* Largest number of lines of an input that is split over several entries.
MaxSplitLines == 4

\* Largest number of cost passes applied to one loaded graph.
MaxPasses == 2

\* Largest number of (name, country) records in the list given to an
\* aggregation.
MaxCities == 3

\* Values of the distance and max_speed fields of an arc line.
Distances == {100}
Speeds == {50}
\* Values of max_vehicle_speed: one below and one above the max_speed of the
\* arcs. All speeds are positive: with a speed of 0 the quotient below is a
\* division by zero in f64 (infinity or NaN), which is not modelled.
Caps == {30, 100}

\* ------------------------------------------------------- lines and fields
\* A field of a line after trim() and split(' '): a decimal integer, a decimal
\* number with a fraction, or text that is no number.
IntTok(n) == [k |-> "int", v |-> n]
FltTok == [k |-> "flt", v |-> 0]
JunkTok == [k |-> "junk", v |-> 0]

\* A line after trim(): hash is starts_with("#"), parts its split(' ') fields;
\* the empty line has no text at all.
ContentLine(parts) == [hash |-> FALSE, empty |-> FALSE, parts |-> parts]
BlankLine == [hash |-> FALSE, empty |-> TRUE, parts |-> <<>>]
CommentLine == [hash |-> TRUE, empty |-> FALSE, parts |-> <<>>]

CountLine(n) == ContentLine(<<IntTok(n)>>)
NodeLine(id) == ContentLine(<<IntTok(id), FltTok, FltTok>>)
ArcLine(t, h, d, s) == ContentLine(<<IntTok(t), IntTok(h), IntTok(d), IntTok(s)>>)
\* Malformed lines: text in place of a number.
JunkLine == ContentLine(<<JunkTok>>)
BadNodeLine == ContentLine(<<IntTok(0), JunkTok, FltTok>>)
BadArcLine == ContentLine(<<IntTok(0), IntTok(0), JunkTok, IntTok(0)>>)

\* str::parse::<usize>() and str::parse::<u64>(): only a decimal integer parses.
ParseInt(tok) == [ok |-> tok.k = "int", val |-> tok.v]
\* str::parse::<f64>(): a decimal integer parses as a float too.
ParseFloat(tok) == [ok |-> tok.k \in {"int", "flt"}, val |-> tok.v]

\* ----------------------------------------------------------------- errors
Running == [tag |-> "Running", kind |-> "", case |-> "", line |-> 0]
Ok == [tag |-> "Ok", kind |-> "", case |-> "", line |-> 0]
Panic == [tag |-> "Panic", kind |-> "", case |-> "", line |-> 0]
Err(kind) == [tag |-> "Err", kind |-> kind, case |-> "", line |-> 0]
\* Error::from(format!("Invalid graph file! (<case>, line <n>)"))
FormatError(case, n) == [tag |-> "Err", kind |-> "FormatError", case |-> case, line |-> n]

ErrorKinds == {"FormatError", "IoError", "ParseIntError", "ParseFloatError", "ZipError"}

\* ------------------------------------------------------------------ graph
Node(id) == [id |-> id, settled |-> FALSE]
Arc(tail, head, distance, max_speed) ==
    [tail_node_id |-> tail, head_node_id |-> head, distance |-> distance,
     max_speed |-> max_speed, costs |-> distance]

\* Graph { nodes: box Vec::new(), adjacency_lists: box Vec::new() }
EmptyGraph == [nodes |-> <<>>, adjacency_lists |-> <<>>]

\* The locals of one read_lines call.
FreshLocals == [line_number |-> 0, total_line_number |-> 0, node_count |-> 0, arc_count |-> 0]

num_nodes(g) == Len(g.nodes)
num_arcs(g) == Len(g.adjacency_lists)

\* for _ in 0..arc_count { self.adjacency_lists.push(Vec::new()); }
RECURSIVE PushBuckets(_, _)
PushBuckets(adj, n) == IF n = 0 THEN adj ELSE PushBuckets(Append(adj, <<>>), n - 1)

\* PushArcs with the reverse arc stored as a copy of the forward one: its tail
\* and head are not swapped.
PushArcsNotReversed(g, tail, head, distance, max_speed) ==
    IF tail >= Len(g.adjacency_lists) \/ head >= Len(g.adjacency_lists)
    THEN [panic |-> TRUE, g |-> g]
    ELSE [panic |-> FALSE,
          g |-> [g EXCEPT !.adjacency_lists =
                    [[@ EXCEPT ![tail + 1] = Append(@, Arc(tail, head, distance, max_speed))]
                        EXCEPT ![head + 1] = Append(@, Arc(tail, head, distance, max_speed))]]]

\* The arc branch's two pushes. adjacency_lists[k] panics when k is no bucket;
\* the second index is evaluated after the first push.
PushArcs(g, tail, head, distance, max_speed) ==
    IF tail >= Len(g.adjacency_lists) THEN [panic |-> TRUE, g |-> g]
    ELSE LET a1 == [g.adjacency_lists EXCEPT ![tail + 1] =
                        Append(@, Arc(tail, head, distance, max_speed))]
         IN  IF head >= Len(a1) THEN [panic |-> TRUE, g |-> [g EXCEPT !.adjacency_lists = a1]]
             ELSE [panic |-> FALSE,
                   g |-> [g EXCEPT !.adjacency_lists =
                            [a1 EXCEPT ![head + 1] =
                                Append(@, Arc(head, tail, distance, max_speed))]]]

\* One iteration of the loop over buf.lines() in read_lines, on the reader
\* state s = [loc, g, out]: the locals, the graph and the outcome so far.
ReadLine(s, line) ==
    LET total == s.loc.total_line_number + 1
        loc1 == [s.loc EXCEPT !.total_line_number = total]
    IN
    IF line.hash \/ line.empty THEN [s EXCEPT !.loc = loc1]
    ELSE
    LET ln == s.loc.line_number + 1
        loc2 == [loc1 EXCEPT !.line_number = ln]
        parts == line.parts
        fail(e) == [s EXCEPT !.loc = loc2, !.out = e]
    IN
    IF Len(parts) < 1 THEN fail(FormatError("general", total))
    ELSE IF ln = 1 THEN
        LET n == ParseInt(parts[1]) IN
        IF ~n.ok THEN fail(Err("ParseIntError"))
        ELSE [s EXCEPT !.loc = [loc2 EXCEPT !.node_count = n.val]]
    ELSE IF ln = 2 THEN
        LET a == ParseInt(parts[1]) IN
        IF ~a.ok THEN fail(Err("ParseIntError"))
        ELSE [s EXCEPT !.loc = [loc2 EXCEPT !.arc_count = a.val],
                       !.g.adjacency_lists = PushBuckets(@, a.val)]
    ELSE IF ln < s.loc.node_count + 3 THEN
        IF Len(parts) # 3 THEN fail(FormatError("Invalid node", total))
        ELSE IF ~ParseInt(parts[1]).ok THEN fail(Err("ParseIntError"))
        ELSE IF ~ParseFloat(parts[2]).ok THEN fail(Err("ParseFloatError"))
        ELSE IF ~ParseFloat(parts[3]).ok THEN fail(Err("ParseFloatError"))
        ELSE [s EXCEPT !.loc = loc2,
                       !.g.nodes = Append(@, Node(ParseInt(parts[1]).val))]
    ELSE IF ln < s.loc.node_count + s.loc.arc_count + 3 THEN
        IF Len(parts) # 4 THEN fail(FormatError("Invalid arc", total))
        ELSE IF \E k \in 1..4 : ~ParseInt(parts[k]).ok THEN fail(Err("ParseIntError"))
        ELSE LET r == PushArcs(s.g, ParseInt(parts[1]).val, ParseInt(parts[2]).val,
                               ParseInt(parts[3]).val, ParseInt(parts[4]).val)
             IN  [loc |-> loc2, g |-> r.g, out |-> IF r.panic THEN Panic ELSE s.out]
    ELSE fail(FormatError("Additional lines", total))

\* ------------------------------------------------------------ arc costs
\* ((distance as f64) * 3.6 / (max_speed as f64)) as u64: the cast truncates
\* toward zero. 3.6 * distance has one decimal digit, so for the values that an
\* Int holds here (below 2^31) the roundings of the f64 product and quotient
\* never cross an integer, and the result is the integer part of the exact
\* quotient.
TravelTime(distance, max_speed) == (distance * 36) \div (max_speed * 10)

\* The body of the inner loop of set_arc_costs_to_travel_time with arc.costs
\* read in place of arc.distance.
ArcTravelTimeFromCosts(arc, max_vehicle_speed) ==
    LET max_speed == IF max_vehicle_speed < arc.max_speed
                        THEN max_vehicle_speed ELSE arc.max_speed
    IN  [arc EXCEPT !.costs = TravelTime(arc.costs, max_speed)]

\* The body of the inner loop of set_arc_costs_to_travel_time without the cap.
ArcTravelTimeUncapped(arc, max_vehicle_speed) ==
    [arc EXCEPT !.costs = TravelTime(arc.distance, arc.max_speed)]

\* The body of the inner loop of set_arc_costs_to_travel_time.
ArcTravelTime(arc, max_vehicle_speed) ==
    LET max_speed == IF max_vehicle_speed < arc.max_speed
                        THEN max_vehicle_speed ELSE arc.max_speed
    IN  [arc EXCEPT !.costs = TravelTime(arc.distance, max_speed)]

\* set_arc_costs_to_travel_time(max_vehicle_speed): every arc of every bucket.
set_arc_costs_to_travel_time(g, max_vehicle_speed) ==
    LET adj == g.adjacency_lists IN
    [g EXCEPT !.adjacency_lists =
        [b \in 1..Len(adj) |->
            [k \in 1..Len(adj[b]) |-> ArcTravelTime(adj[b][k], max_vehicle_speed)]]]

\* set_arc_costs_to_distance(): every arc of every bucket.
set_arc_costs_to_distance(g) ==
    LET adj == g.adjacency_lists IN
    [g EXCEPT !.adjacency_lists =
        [b \in 1..Len(adj) |->
            [k \in 1..Len(adj[b]) |-> [adj[b][k] EXCEPT !.costs = adj[b][k].distance]]]]

\* ------------------------------------------------------ city analyzer
\* City names and country codes. A record is the tuple <<name, country>>; the
\* name "DE" is a name that equals the country code the _in_de functions look
\* for.
Names == {"Bonn", "DE", "Ulm"}
Countries == {"DE", "FR"}

\* a.0.cmp(&b.0) == Less: the byte order of the names.
NameRank == ("Bonn" :> 1) @@ ("DE" :> 2) @@ ("Ulm" :> 3)

\* The closure |a, b| a.0.cmp(&b.0) as a rank of the records of the list: a
\* goes before b when its rank is smaller.
NameOrder(list) == [e \in {list[k] : k \in 1..Len(list)} |-> NameRank[e[1]]]

\* The closure |a, b| b.1.cmp(&a.1) as a rank of the pairs: larger counts first.
CountOrder(names) == [e \in {names[k] : k \in 1..Len(names)} |-> 0 - e[2]]

\* sort_by is a stable sort: each element goes behind the elements that do not
\* come after it.
RECURSIVE Insert(_, _, _)
Insert(sorted, x, rank) ==
    IF sorted = <<>> THEN <<x>>
    ELSE IF rank[x] < rank[sorted[Len(sorted)]]
        THEN Append(Insert(SubSeq(sorted, 1, Len(sorted) - 1), x, rank), sorted[Len(sorted)])
    ELSE Append(sorted, x)

RECURSIVE SortBy(_, _)
SortBy(seq, rank) ==
    IF seq = <<>> THEN <<>>
    ELSE Insert(SortBy(SubSeq(seq, 1, Len(seq) - 1), rank), seq[Len(seq)], rank)

\* The loop "for city in cities.iter().skip(1)" of
\* compute_most_frequent_city_by_sorting from element k on, and the push after it.
RECURSIVE CountRuns(_, _, _, _, _)
CountRuns(sorted, k, names, last_name, count) ==
    IF k > Len(sorted) THEN Append(names, <<sorted[Len(sorted)][1], count>>)
    ELSE IF sorted[k][1] = last_name
        THEN CountRuns(sorted, k + 1, names, last_name, count + 1)
    ELSE CountRuns(sorted, k + 1, Append(names, <<last_name, count>>), sorted[k][1], 1)

compute_most_frequent_city_by_sorting(list) ==
    IF Len(list) = 0 THEN <<>>
    ELSE LET sorted == SortBy(list, NameOrder(list))
             names == CountRuns(sorted, 2, <<>>, sorted[1][1], 1)
         IN  SortBy(names, CountOrder(names))

\* let mut in_de: bool = &cities[0].0 == "DE";
InDeStart(sorted) == sorted[1][1] = "DE"

\* The loop of compute_most_frequent_city_by_sorting_in_de from element k on,
\* and the push after it.
RECURSIVE CountRunsInDe(_, _, _, _, _, _)
CountRunsInDe(sorted, k, names, last_name, count, in_de) ==
    IF k > Len(sorted)
    THEN IF in_de \/ sorted[Len(sorted)][2] = "DE"
            THEN Append(names, <<sorted[Len(sorted)][1], count>>) ELSE names
    ELSE IF sorted[k][1] = last_name
        THEN CountRunsInDe(sorted, k + 1, names, last_name, count + 1,
                           in_de \/ sorted[k][2] = "DE")
    ELSE CountRunsInDe(sorted, k + 1,
                       IF in_de THEN Append(names, <<last_name, count>>) ELSE names,
                       sorted[k][1], 1, sorted[k][2] = "DE")

compute_most_frequent_city_by_sorting_in_de(list) ==
    IF Len(list) = 0 THEN <<>>
    ELSE LET sorted == SortBy(list, NameOrder(list))
             names == CountRunsInDe(sorted, 2, <<>>, sorted[1][1], 1, InDeStart(sorted))
         IN  SortBy(names, CountOrder(names))

\* The loop over cities that fills the HashMap<&str, usize>, from element k on.
RECURSIVE CountByName(_, _, _)
CountByName(list, k, map) ==
    IF k > Len(list) THEN map
    ELSE LET name == list[k][1] IN
         CountByName(list, k + 1,
                     IF name \in DOMAIN map THEN [map EXCEPT ![name] = @ + 1]
                     ELSE map @@ (name :> 1))

\* The loop over cities that fills the HashMap<&str, (usize, bool)>.
RECURSIVE CountByNameInDe(_, _, _)
CountByNameInDe(list, k, map) ==
    IF k > Len(list) THEN map
    ELSE LET name == list[k][1]
             de == list[k][2] = "DE"
         IN  CountByNameInDe(list, k + 1,
                IF name \in DOMAIN map
                    THEN [map EXCEPT ![name] = <<@[1] + 1, @[2] \/ de>>]
                ELSE map @@ (name :> <<1, de>>))

\* map.drain() yields the entries in the hash map's order, which differs from
\* run to run: every order of the keys.
RECURSIVE DrainOrders(_)
DrainOrders(keys) ==
    IF keys = {} THEN {<<>>}
    ELSE UNION {{<<n>> \o rest : rest \in DrainOrders(keys \ {n})} : n \in keys}

EmptyMap == [n \in {} |-> 0]

\* Every list compute_most_frequent_city_by_map may return.
compute_most_frequent_city_by_map(list) ==
    IF Len(list) = 0 THEN {<<>>}
    ELSE LET map == CountByName(list, 1, EmptyMap) IN
         {LET names == [k \in 1..Len(order) |-> <<order[k], map[order[k]]>>]
          IN  SortBy(names, CountOrder(names)) :
            order \in DrainOrders(DOMAIN map)}

\* The names pushed for one drain order: those whose flag is set.
RECURSIVE PushInDe(_, _, _)
PushInDe(map, order, k) ==
    IF k > Len(order) THEN <<>>
    ELSE (IF map[order[k]][2] THEN <<(<<order[k], map[order[k]][1]>>)>> ELSE <<>>)
         \o PushInDe(map, order, k + 1)

\* Every list compute_most_frequent_city_by_map_in_de may return.
compute_most_frequent_city_by_map_in_de(list) ==
    IF Len(list) = 0 THEN {<<>>}
    ELSE LET map == CountByNameInDe(list, 1, EmptyMap) IN
         {LET names == PushInDe(map, order, 1)
          IN  SortBy(names, CountOrder(names)) :
            order \in DrainOrders(DOMAIN map)}

\* No aggregation has been called.
NoneComputed ==
    [f \in {"by_sorting", "by_map", "by_sorting_in_de", "by_map_in_de"} |->
        [done |-> FALSE, names |-> <<>>]]

\* Every list of at most n records.
RECURSIVE Lists(_)
Lists(n) ==
    IF n = 0 THEN {<<>>}
    ELSE Lists(n - 1) \cup
         {Append(l, <<name, country>>) :
            l \in {m \in Lists(n - 1) : Len(m) = n - 1}, name \in Names, country \in Countries}

\* ------------------------------------------------- component analysis
\* vec![0_u8; n]
Zeros(n) == [k \in 1..n |-> 0]

\* The locals of compute_reachable_nodes(node_id) at the head of its while loop.
FloodStart(g, node_id) ==
    [marked_nodes |-> Zeros(num_nodes(g)), num_marked |-> 1,
     pending_nodes |-> {node_id}, next_nodes |-> {}, panic |-> FALSE]

\* ScanArcs without the test "marked_nodes[arc.head_node_id] == 0": every head
\* goes to next_nodes.
RECURSIVE ScanArcsUnchecked(_, _, _)
ScanArcsUnchecked(f, arcs, k) ==
    IF k > Len(arcs) THEN f
    ELSE LET head == arcs[k].head_node_id IN
         IF head >= Len(f.marked_nodes) THEN [f EXCEPT !.panic = TRUE]
         ELSE ScanArcsUnchecked([f EXCEPT !.next_nodes = @ \cup {head}], arcs, k + 1)

\* for arc in self.adjacency_lists[node].iter(): the heads not yet marked go to
\* next_nodes; marked_nodes[arc.head_node_id] panics on a head that is no node.
RECURSIVE ScanArcs(_, _, _)
ScanArcs(f, arcs, k) ==
    IF k > Len(arcs) THEN f
    ELSE LET head == arcs[k].head_node_id IN
         IF head >= Len(f.marked_nodes) THEN [f EXCEPT !.panic = TRUE]
         ELSE ScanArcs(IF f.marked_nodes[head + 1] = 0
                          THEN [f EXCEPT !.next_nodes = @ \cup {head}] ELSE f,
                       arcs, k + 1)

\* The body of "for node in pending_nodes.drain()" for one node.
VisitNode(g, f, node) ==
    IF f.marked_nodes[node + 1] = 1 THEN f
    ELSE LET f1 == [f EXCEPT !.marked_nodes[node + 1] = 1, !.num_marked = @ + 1] IN
         IF node >= Len(g.adjacency_lists) THEN [f1 EXCEPT !.panic = TRUE]
         ELSE ScanArcs(f1, g.adjacency_lists[node + 1], 1)

\* pending_nodes.drain() visits the set in the hash set's order, which differs
\* from run to run: every order, and what the for loop leaves behind in each.
RECURSIVE Drain(_, _, _)
Drain(g, f, pending) ==
    IF pending = {} \/ f.panic THEN {f}
    ELSE UNION {Drain(g, VisitNode(g, f, n), pending \ {n}) : n \in pending}

\* One iteration of "while !pending_nodes.is_empty()", ending with
\* pending_nodes = next_nodes.
FloodRounds(g, f) ==
    {[r EXCEPT !.pending_nodes = r.next_nodes, !.next_nodes = {}] :
        r \in Drain(g, [f EXCEPT !.next_nodes = {}], f.pending_nodes)}

\* The locals of compute_lcc before its loop.
ScanStart(g) ==
    [i |-> 0, unvisited_nodes |-> Zeros(num_nodes(g)), marked_nodes |-> <<>>,
     lcc |-> [size |-> 0, members |-> <<>>]]

\* MarkReachable with the test "j > i" off by one: the node after the seed is
\* not marked as visited.
RECURSIVE MarkReachableOffByOne(_, _, _, _)
MarkReachableOffByOne(sc, num_marked, reachable_nodes, j) ==
    IF j >= Len(reachable_nodes) THEN sc
    ELSE IF reachable_nodes[j + 1] = 0
        THEN MarkReachableOffByOne(sc, num_marked, reachable_nodes, j + 1)
    ELSE LET s1 == IF j > sc.i + 1 THEN [sc EXCEPT !.unvisited_nodes[j + 1] = 1] ELSE sc
             s2 == IF num_marked > sc.lcc.size
                      THEN [s1 EXCEPT !.marked_nodes = Append(@, sc.i)] ELSE s1
         IN  MarkReachableOffByOne(s2, num_marked, reachable_nodes, j + 1)

\* The loop "for j in 0..node_count" of compute_lcc, from j on.
RECURSIVE MarkReachable(_, _, _, _)
MarkReachable(sc, num_marked, reachable_nodes, j) ==
    IF j >= Len(reachable_nodes) THEN sc
    ELSE IF reachable_nodes[j + 1] = 0 THEN MarkReachable(sc, num_marked, reachable_nodes, j + 1)
    ELSE LET s1 == IF j > sc.i THEN [sc EXCEPT !.unvisited_nodes[j + 1] = 1] ELSE sc
             s2 == IF num_marked > sc.lcc.size
                      THEN [s1 EXCEPT !.marked_nodes = Append(@, sc.i)] ELSE s1
         IN  MarkReachable(s2, num_marked, reachable_nodes, j + 1)

\* The rest of an iteration of compute_lcc once compute_reachable_nodes(i) has
\* returned (num_marked, reachable_nodes).
AfterFlood(sc, num_marked, reachable_nodes) ==
    IF num_marked = 0 THEN [sc EXCEPT !.i = @ + 1]
    ELSE LET s1 == MarkReachable([sc EXCEPT !.marked_nodes = <<>>],
                                 num_marked, reachable_nodes, 0)
         IN  IF num_marked > s1.lcc.size
                THEN [s1 EXCEPT !.lcc = [size |-> num_marked, members |-> s1.marked_nodes],
                                !.i = @ + 1]
                ELSE [s1 EXCEPT !.i = @ + 1]

\* ------------------------------------------------------------------ state
VARIABLES
    pc,        \* where the caller of the library is
    index,     \* read_graph_from_file: number of archive entries opened so far
    loc,       \* read_lines: line_number, total_line_number, node_count, arc_count
    graph,     \* read_graph_from_file: graph (nodes, adjacency_lists)
    outcome,   \* what read_graph_from_file returned (Running until it returns)
    scan,      \* compute_lcc: i, unvisited_nodes, marked_nodes, lcc
    flood,     \* compute_reachable_nodes: marked_nodes, num_marked, pending_nodes
    cat,       \* read_lines run over the same lines as one single stream
    ghost,     \* history of the input, read by the properties only
    cities,    \* analyzer: the Vec<(String, String)> of (name, country) records
    frequent   \* analyzer: what each of the four aggregations returned

vars == <<pc, index, loc, graph, outcome, scan, flood, cat, ghost, cities, frequent>>

\* compute_lcc and compute_reachable_nodes are not running.
NoScan == ScanStart(EmptyGraph)
NoFlood == [FloodStart(EmptyGraph, 0) EXCEPT !.pending_nodes = {}, !.num_marked = 0]

FreshReader == [loc |-> FreshLocals, g |-> EmptyGraph, out |-> Running]

\* wf: the lines read so far are a prefix of a well-formed single-stream input;
\* complete: the input was one whole well-formed stream; N, A: the header of the
\* first stream; edges, arcs: the arc lines that reached the arc branch;
\* truncated: some stream ended before its declared nodes and arcs were read;
\* lines: lines read over all streams; headers: header pairs read;
\* fills: the seed and the marked nodes of every flood-fill that compute_lcc has
\* got back, in order; rounds: iterations of the while loop that the running
\* flood-fill has completed; passes: the cost passes applied to the loaded graph, in
\* order; contents: content lines read over all streams; decl_n,
\* decl_a: the counts on the first and the second of them; entry_contents:
\* content lines read in the current entry; in_nodes: the line just read was a
\* content line without exactly 3 fields, read after the header and before
\* decl_n node lines; extra: the line just read was a content line read after
\* decl_n + decl_a + 2 content lines; grew: the line just read added a node or
\* an arc. After a failure, lines is the index of the failing line among all
\* lines read.
FreshGhost ==
    [wf |-> TRUE, complete |-> FALSE, N |-> 0, A |-> 0, edges |-> {}, arcs |-> 0,
     truncated |-> FALSE, lines |-> 0, headers |-> 0, fills |-> <<>>,
     contents |-> 0, decl_n |-> 0, decl_a |-> 0, entry_contents |-> 0,
     in_nodes |-> FALSE, extra |-> FALSE, grew |-> FALSE, passes |-> <<>>,
     rounds |-> 0]

Init ==
    /\ pc = "open"
    /\ index = 0
    /\ loc = FreshLocals
    /\ graph = EmptyGraph
    /\ outcome = Running
    /\ scan = NoScan
    /\ flood = NoFlood
    /\ cat = FreshReader
    /\ ghost = FreshGhost
    /\ cities = <<>>
    /\ frequent = NoneComputed

\* The shape a line must have at its place in a well-formed input, l being the
\* locals before the line: a count alone on each header line, then node_count
\* node lines with the ids 0, 1, ... in order, then arc_count arc lines between
\* declared nodes.
WellFormedAt(l, line) ==
    LET ln == l.line_number + 1
        p == line.parts
    IN  IF line.hash \/ line.empty THEN TRUE
        ELSE IF ln <= 2 THEN Len(p) = 1 /\ ParseInt(p[1]).ok
        ELSE IF ln < l.node_count + 3 THEN
            /\ Len(p) = 3
            /\ ParseInt(p[1]).ok /\ ParseFloat(p[2]).ok /\ ParseFloat(p[3]).ok
            /\ p[1].v = ln - 3
        ELSE IF ln < l.node_count + l.arc_count + 3 THEN
            /\ Len(p) = 4
            /\ \A k \in 1..4 : ParseInt(p[k]).ok
            /\ p[1].v < l.node_count /\ p[2].v < l.node_count
        ELSE FALSE

\* The line is an arc record that the arc branch of read_lines stores.
ReachesArcBranch(l, line) ==
    LET ln == l.line_number + 1 IN
    /\ ~line.hash /\ ~line.empty
    /\ ln > 2 /\ ln >= l.node_count + 3 /\ ln < l.node_count + l.arc_count + 3
    /\ Len(line.parts) = 4
    /\ \A k \in 1..4 : ParseInt(line.parts[k]).ok

Edge(line) ==
    [t |-> line.parts[1].v, h |-> line.parts[2].v,
     d |-> line.parts[3].v, s |-> line.parts[4].v]

\* What reading the line adds to the history h of the lines read so far; g0 and
\* g1 are the graph before and after the line.
AfterLine(h, line, g0, g1) ==
    LET content == ~line.hash /\ ~line.empty
        header == h.contents < 2
        count == ParseInt(line.parts[1])
    IN  [h EXCEPT
            !.lines = @ + 1,
            !.contents = IF content THEN @ + 1 ELSE @,
            !.entry_contents = IF content THEN @ + 1 ELSE @,
            !.decl_n = IF content /\ h.contents = 0 /\ count.ok THEN count.val ELSE @,
            !.decl_a = IF content /\ h.contents = 1 /\ count.ok THEN count.val ELSE @,
            !.in_nodes = /\ content /\ ~header
                         /\ h.contents - 2 < h.decl_n
                         /\ Len(line.parts) # 3,
            !.extra = content /\ ~header /\ h.contents >= h.decl_n + h.decl_a + 2,
            !.grew = g1 # g0]

\* The lines the next read may deliver.
InputLines ==
    (IF loc.total_line_number - loc.line_number < MaxSkip
        THEN {BlankLine, CommentLine} ELSE {})
    \cup {CountLine(n) : n \in 0..MaxCount}
    \cup {NodeLine(id) : id \in {Len(graph.nodes), 0}}
    \cup (IF ghost.arcs < MaxArcLines
            THEN {ArcLine(t, h, d, s) : t \in 0..(MaxCount - 1), h \in 0..(MaxCount - 1),
                                        d \in Distances, s \in Speeds}
            ELSE {})
    \cup {JunkLine, BadNodeLine, BadArcLine}

\* read_graph_from_file returns Err(e), or unwinds: graph and locals are dropped.
\* h and catout are what ghost and cat.out are at that point: of the history
\* only what is said about the failing line is kept.
Fail(e, h, catout) ==
    /\ pc' = "failed"
    /\ outcome' = e
    /\ index' = 0
    /\ loc' = FreshLocals
    /\ graph' = EmptyGraph
    /\ cat' = [FreshReader EXCEPT !.out = catout]
    /\ ghost' = [FreshGhost EXCEPT !.wf = h.wf, !.lines = h.lines,
                                   !.in_nodes = h.in_nodes, !.extra = h.extra,
                                   !.grew = h.grew]
    /\ UNCHANGED <<cities, frequent, scan, flood>>

\* File::open(name) and ZipArchive::new(file) succeed.
OpenArchive ==
    /\ pc = "open"
    /\ pc' = "entries"
    /\ UNCHANGED <<cities, frequent, index, loc, graph, outcome, scan, flood, cat, ghost>>

\* File::open(name) fails (IoError) or ZipArchive::new(file) fails (ZipError).
OpenFails ==
    /\ pc = "open"
    /\ \E kind \in {"IoError", "ZipError"} : Fail(Err(kind), [FreshGhost EXCEPT !.wf = ghost.wf], cat.out)

\* archive.by_index(index) succeeds: read_lines starts on the entry, with fresh
\* locals.
NextEntry ==
    /\ pc = "entries"
    /\ index < MaxStreams
    /\ index > 0 => ghost.lines < MaxSplitLines
    /\ pc' = "read"
    /\ index' = index + 1
    /\ loc' = FreshLocals
    /\ ghost' = [ghost EXCEPT !.wf = @ /\ index = 0, !.entry_contents = 0]
    /\ UNCHANGED <<cities, frequent, graph, outcome, scan, flood, cat>>

\* archive.by_index(index) fails.
EntryFails ==
    /\ pc = "entries"
    /\ index < MaxStreams
    /\ Fail(Err("ZipError"), [FreshGhost EXCEPT !.wf = ghost.wf], cat.out)

\* buf.lines() yields a line: one iteration of the loop of read_lines.
ReadNextLine ==
    /\ pc = "read"
    /\ ghost.lines < (IF index > 1 THEN MaxSplitLines ELSE MaxLines)
    /\ \E line \in InputLines :
        LET r == ReadLine([loc |-> loc, g |-> graph, out |-> Running], line)
            c == IF cat.out = Running THEN ReadLine(cat, line) ELSE cat
            first == index = 1 /\ ~line.hash /\ ~line.empty
        IN  IF r.out # Running
            THEN Fail(r.out,
                      [AfterLine(ghost, line, graph, r.g) EXCEPT
                            !.wf = @ /\ WellFormedAt(loc, line)],
                      c.out)
            ELSE /\ UNCHANGED <<scan, flood>>
                 /\ loc' = r.loc
                 /\ graph' = r.g
                 /\ cat' = IF c.out = Running THEN c ELSE [FreshReader EXCEPT !.out = c.out]
                 /\ ghost' = [AfterLine(ghost, line, graph, r.g) EXCEPT
                        !.wf = @ /\ WellFormedAt(loc, line),
                        !.N = IF first /\ loc.line_number = 0 THEN r.loc.node_count ELSE @,
                        !.A = IF first /\ loc.line_number = 1 THEN r.loc.arc_count ELSE @,
                        !.headers = IF ~line.hash /\ ~line.empty /\ loc.line_number = 1
                                        THEN @ + 1 ELSE @,
                        !.edges = IF ReachesArcBranch(loc, line) THEN @ \cup {Edge(line)} ELSE @,
                        !.arcs = IF ReachesArcBranch(loc, line) THEN @ + 1 ELSE @]
                 /\ UNCHANGED <<cities, frequent, pc, index, outcome>>

\* buf.lines() yields Err: try!(line_res) returns IoError.
LineIoError ==
    /\ pc = "read"
    /\ Fail(Err("IoError"), [FreshGhost EXCEPT !.wf = ghost.wf], cat.out)

\* buf.lines() is exhausted: read_lines returns Ok(()).
EndOfStream ==
    /\ pc = "read"
    /\ pc' = "entries"
    /\ ghost' = [ghost EXCEPT
            !.truncated = @ \/ (loc.line_number # 0
                                /\ loc.line_number < loc.node_count + loc.arc_count + 2),
            !.complete = ghost.wf /\ index = 1
                         /\ loc.line_number = loc.node_count + loc.arc_count + 2,
            !.entry_contents = 0, !.in_nodes = FALSE, !.extra = FALSE, !.grew = FALSE]
    /\ loc' = FreshLocals
    /\ UNCHANGED <<cities, frequent, index, graph, outcome, scan, flood, cat>>

\* index reached archive.len(): read_graph_from_file returns Ok(graph).
Finish ==
    /\ pc = "entries"
    /\ pc' = "loaded"
    /\ outcome' = Ok
    /\ cat' = [cat EXCEPT !.loc = FreshLocals]
    /\ ghost' = [ghost EXCEPT !.complete = @ /\ index = 1, !.lines = 0,
                               !.contents = 0, !.decl_n = 0, !.decl_a = 0]
    /\ UNCHANGED <<cities, frequent, index, loc, graph, scan, flood>>

\* The caller calls graph.set_arc_costs_to_distance().
SetArcCostsToDistance ==
    /\ pc = "loaded"
    /\ Len(ghost.passes) < MaxPasses
    /\ graph' = set_arc_costs_to_distance(graph)
    /\ ghost' = [ghost EXCEPT !.passes = Append(@, [pass |-> "distance", cap |-> 0])]
    /\ UNCHANGED <<cities, frequent, pc, index, loc, outcome, scan, flood, cat>>

\* The caller calls graph.set_arc_costs_to_travel_time(max_vehicle_speed).
SetArcCostsToTravelTime ==
    /\ pc = "loaded"
    /\ Len(ghost.passes) < MaxPasses
    /\ \E max_vehicle_speed \in Caps :
        /\ graph' = set_arc_costs_to_travel_time(graph, max_vehicle_speed)
        /\ ghost' = [ghost EXCEPT !.passes =
                Append(@, [pass |-> "travel_time", cap |-> max_vehicle_speed])]
    /\ UNCHANGED <<cities, frequent, pc, index, loc, outcome, scan, flood, cat>>

\* The caller calls graph.compute_lcc().
CallComputeLcc ==
    /\ pc = "loaded"
    /\ pc' = "scan"
    /\ scan' = ScanStart(graph)
    /\ UNCHANGED <<cities, frequent, index, loc, graph, outcome, flood, cat, ghost>>

\* compute_lcc, "if unvisited_nodes[i] == 1 { continue; }".
ScanSkip ==
    /\ pc = "scan"
    /\ scan.i < num_nodes(graph)
    /\ scan.unvisited_nodes[scan.i + 1] = 1
    /\ scan' = [scan EXCEPT !.i = @ + 1]
    /\ UNCHANGED <<cities, frequent, pc, index, loc, graph, outcome, flood, cat, ghost>>

\* compute_lcc calls compute_reachable_nodes(i).
StartFlood ==
    /\ pc = "scan"
    /\ scan.i < num_nodes(graph)
    /\ scan.unvisited_nodes[scan.i + 1] = 0
    /\ pc' = "flood"
    /\ flood' = FloodStart(graph, scan.i)
    /\ UNCHANGED <<cities, frequent, index, loc, graph, outcome, scan, cat, ghost>>

\* One iteration of the while loop of compute_reachable_nodes; an index out of
\* range unwinds compute_lcc and its caller, and the graph is dropped.
FloodRound ==
    /\ pc = "flood"
    /\ flood.pending_nodes # {}
    /\ \E r \in FloodRounds(graph, flood) :
        IF r.panic
        THEN /\ pc' = "lcc_panic"
             /\ flood' = NoFlood
             /\ scan' = NoScan
             /\ graph' = EmptyGraph
             /\ cat' = [FreshReader EXCEPT !.out = cat.out]
             /\ ghost' = [FreshGhost EXCEPT !.wf = ghost.wf, !.complete = ghost.complete]
        ELSE /\ flood' = r
             /\ ghost' = [ghost EXCEPT !.rounds = @ + 1]
             /\ UNCHANGED <<pc, scan, graph, cat>>
    /\ UNCHANGED <<cities, frequent, index, loc, outcome>>

\* compute_reachable_nodes returns (num_marked, marked_nodes); compute_lcc
\* finishes the iteration for i.
FloodReturn ==
    /\ pc = "flood"
    /\ flood.pending_nodes = {}
    /\ pc' = "scan"
    /\ scan' = AfterFlood(scan, flood.num_marked, flood.marked_nodes)
    /\ flood' = NoFlood
    /\ ghost' = [ghost EXCEPT !.rounds = 0, !.fills = Append(@,
            [seed |-> scan.i,
             reached |-> {k \in 0..(Len(flood.marked_nodes) - 1) :
                            flood.marked_nodes[k + 1] = 1}])]
    /\ UNCHANGED <<cities, frequent, index, loc, graph, outcome, cat>>

\* compute_lcc returns lcc.
LccReturn ==
    /\ pc = "scan"
    /\ scan.i = num_nodes(graph)
    /\ pc' = "done"
    /\ scan' = [NoScan EXCEPT !.lcc = scan.lcc]
    /\ UNCHANGED <<cities, frequent, index, loc, graph, outcome, flood, cat, ghost>>

Next ==
    \/ OpenArchive
    \/ OpenFails
    \/ NextEntry
    \/ EntryFails
    \/ ReadNextLine
    \/ LineIoError
    \/ EndOfStream
    \/ Finish
    \/ CallComputeLcc
    \/ ScanSkip
    \/ StartFlood
    \/ FloodRound
    \/ FloodReturn
    \/ LccReturn

Spec == Init /\ [][Next]_vars

\* A caller that loads a graph and then applies cost passes to it.
NextCosts ==
    \/ OpenArchive
    \/ OpenFails
    \/ NextEntry
    \/ EntryFails
    \/ ReadNextLine
    \/ LineIoError
    \/ EndOfStream
    \/ Finish
    \/ SetArcCostsToDistance
    \/ SetArcCostsToTravelTime

SpecCosts == Init /\ [][NextCosts]_vars

\* ------------------------------------------------------ city analyzer
\* A caller that holds a list of records and calls the four aggregations on it.
InitCities ==
    /\ pc = "analyze"
    /\ index = 0
    /\ loc = FreshLocals
    /\ graph = EmptyGraph
    /\ outcome = Running
    /\ scan = NoScan
    /\ flood = NoFlood
    /\ cat = FreshReader
    /\ ghost = FreshGhost
    /\ cities \in Lists(MaxCities)
    /\ frequent = NoneComputed

\* The aggregation f returns names.
Returned(f, names) ==
    /\ pc = "analyze"
    /\ ~frequent[f].done
    /\ frequent' = [frequent EXCEPT ![f] = [done |-> TRUE, names |-> names]]
    /\ UNCHANGED <<pc, index, loc, graph, outcome, scan, flood, cat, ghost, cities>>

BySorting ==
    \E names \in {compute_most_frequent_city_by_sorting(cities)} :
        Returned("by_sorting", names)

ByMap == \E names \in compute_most_frequent_city_by_map(cities) : Returned("by_map", names)

BySortingInDe ==
    \E names \in {compute_most_frequent_city_by_sorting_in_de(cities)} :
        Returned("by_sorting_in_de", names)

ByMapInDe ==
    \E names \in compute_most_frequent_city_by_map_in_de(cities) :
        Returned("by_map_in_de", names)

NextCities == BySorting \/ ByMap \/ BySortingInDe \/ ByMapInDe

SpecCities == InitCities /\ [][NextCities]_vars

\* ------------------------------------------------------------- properties
Nodes == 0..(num_nodes(graph) - 1)

\* Number of Arc entries stored over all adjacency buckets.
RECURSIVE StoredArcsFrom(_, _)
StoredArcsFrom(adj, b) ==
    IF b > Len(adj) THEN 0 ELSE Len(adj[b]) + StoredArcsFrom(adj, b + 1)
StoredArcs == StoredArcsFrom(graph.adjacency_lists, 1)

\* Bucket b (an id, 0-based) holds an arc with these fields.
HasArc(b, tail, head, d, s) ==
    /\ b < Len(graph.adjacency_lists)
    /\ \E k \in 1..Len(graph.adjacency_lists[b + 1]) :
        LET a == graph.adjacency_lists[b + 1][k] IN
        /\ a.tail_node_id = tail /\ a.head_node_id = head
        /\ a.distance = d /\ a.max_speed = s

\* The heads of the stored arcs whose bucket is a node of S.
Heads(S) ==
    {graph.adjacency_lists[n + 1][k].head_node_id :
        <<n, k>> \in {<<m, j>> \in S \X (1..(2 * MaxLines)) :
                        /\ m < Len(graph.adjacency_lists)
                        /\ j <= Len(graph.adjacency_lists[m + 1])}}

\* The nodes reachable from the nodes of S over stored arcs.
RECURSIVE Reachable(_)
Reachable(S) == IF Heads(S) \subseteq S THEN S ELSE Reachable(S \cup Heads(S))

Component(n) == Reachable({n})
Components == {Component(n) : n \in Nodes}
MaxComponentSize == CHOOSE m \in {Cardinality(c) : c \in Components} :
                        \A c \in Components : Cardinality(c) <= m
LargestComponents == {c \in Components : Cardinality(c) = MaxComponentSize}

Range(seq) == {seq[k] : k \in 1..Len(seq)}
NoDuplicates(seq) == \A j, k \in 1..Len(seq) : j # k => seq[j] # seq[k]
Min(S) == CHOOSE m \in S : \A x \in S : m <= x

C12_LineNumbers ==
    /\ pc = "read" => loc.line_number = ghost.entry_contents
    /\ (pc = "failed" /\ outcome.kind = "FormatError") => outcome.line = ghost.lines

\* C13: a content line without exactly 3 fields, read after the header while
\* fewer than node_count node lines have been read, makes the load fail with
\* the 'Invalid node' format error naming that line, whatever its fields are,
\* and adds no node.
C13_InvalidNode ==
    ghost.in_nodes =>
        /\ pc = "failed"
        /\ outcome = FormatError("Invalid node", ghost.lines)
        /\ ~ghost.grew

\* C14: every content line read after node_count + arc_count + 2 content lines
\* makes the load fail with the 'Additional lines' format error and adds no
\* node or arc.
C14_AdditionalLines ==
    ghost.extra =>
        /\ pc = "failed"
        /\ outcome.kind = "FormatError"
        /\ outcome.case = "Additional lines"
        /\ ~ghost.grew

\* C1: every well-formed input loads successfully, with num_nodes() equal to the
\* declared node_count and 2 * arc_count Arc entries stored; in particular no
\* prefix of a well-formed input makes the load panic or fail on its content.
C1_WellFormedLoads ==
    /\ ghost.wf => ~(\/ outcome.tag = "Panic"
                     \/ /\ outcome.tag = "Err"
                        /\ outcome.kind \in {"FormatError", "ParseIntError", "ParseFloatError"})
    /\ (pc = "loaded" /\ ghost.complete) =>
            /\ num_nodes(graph) = ghost.N
            /\ StoredArcs = 2 * ghost.A

\* C2: once the arc_count line is processed the adjacency table holds exactly
\* node_count empty buckets, and after a load of a whole well-formed input
\* num_arcs() = num_nodes() = the declared node_count.
C2_BucketsPerNode ==
    /\ (pc = "read" /\ index = 1 /\ loc.line_number = 2) =>
            graph.adjacency_lists = [k \in 1..loc.node_count |-> <<>>]
    /\ (pc = "loaded" /\ ghost.complete) =>
            /\ num_arcs(graph) = num_nodes(graph)
            /\ num_nodes(graph) = ghost.N

\* C3: loading the streams one after the other gives the same graph, or the
\* same error, as loading their concatenation as one stream, and the header is
\* read once.
C3_StreamsAsOne ==
    /\ outcome.tag = "Ok" => (cat.out = Running /\ cat.g = graph)
    /\ (outcome.tag \in {"Err", "Panic"} /\ cat.out # Running) => cat.out = outcome
    /\ ghost.headers <= 1

\* C4: for a graph with at least one node, here one loaded from a whole
\* well-formed input, the size compute_lcc() returns is the number of nodes of a
\* largest connected component.
C4_LccSize ==
    (pc = "done" /\ ghost.complete /\ num_nodes(graph) >= 1) =>
        scan.lcc.size = MaxComponentSize

\* C5: the member list compute_lcc() returns, here for a graph loaded from a
\* whole well-formed input, lists each node of one connected component exactly
\* once, and nothing else.
C5_LccMembers ==
    (pc = "done" /\ ghost.complete /\ num_nodes(graph) >= 1) =>
        /\ NoDuplicates(scan.lcc.members)
        /\ Range(scan.lcc.members) \in Components

C7_NoPanic ==
    /\ outcome.tag # "Panic"
    /\ outcome.tag = "Err" => outcome.kind \in ErrorKinds

\* C8: a load succeeds only if every stream held all the node lines and arc
\* lines its header declared.
C8_NoPartialGraph ==
    outcome.tag = "Ok" => ~ghost.truncated

\* C9: when several components share the maximum size, compute_lcc() returns
\* the members of the one that contains the smallest node id (here for a graph
\* whose node and arc lines were all well-formed).
C9_TieBreak ==
    (pc = "done" /\ ghost.wf /\ Cardinality(LargestComponents) > 1) =>
        Range(scan.lcc.members) = Component(Min(UNION LargestComponents))

\* C10: after a successful load the node at position k of the node table has id k.
C10_NodeIds ==
    outcome.tag = "Ok" =>
        \A k \in 1..Len(graph.nodes) : graph.nodes[k].id = k - 1

\* Every Arc entry stored in the graph.
AllArcs ==
    {graph.adjacency_lists[b][k] :
        <<b, k>> \in {<<c, j>> \in (1..Len(graph.adjacency_lists)) \X (1..(2 * MaxLines)) :
                        j <= Len(graph.adjacency_lists[c])}}

LastPass == ghost.passes[Len(ghost.passes)]

\* C15: a cost pass depends on the last pass only: whenever
\* set_arc_costs_to_distance has run, after whatever passes, every arc has
\* costs = distance, and running set_arc_costs_to_travel_time again with the cap
\* of the pass before changes no arc.
C15_PassesIdempotent ==
    [][Len(ghost'.passes) = Len(ghost.passes) + 1 =>
        /\ ghost'.passes[Len(ghost'.passes)].pass = "distance" =>
                \A arc \in AllArcs' : arc.costs = arc.distance
        /\ (/\ Len(ghost.passes) > 0
            /\ LastPass.pass = "travel_time"
            /\ ghost'.passes[Len(ghost'.passes)] = LastPass) => graph' = graph]_vars

\* set_arc_costs_to_travel_time has run twice in a row with the same cap on a
\* graph with arcs.
C15_Witness ==
    /\ pc = "loaded"
    /\ Len(ghost.passes) = 2
    /\ ghost.passes[1] = ghost.passes[2]
    /\ LastPass.pass = "travel_time"
    /\ AllArcs # {}

Marked == {k \in 0..(Len(flood.marked_nodes) - 1) : flood.marked_nodes[k + 1] = 1}

\* C17: compute_reachable_nodes(seed) returns a marker array that marks exactly
\* the nodes reachable from the seed, the seed included, and a count equal to
\* the number of marked entries.
C17_ReachableCount ==
    (pc = "flood" /\ flood.pending_nodes = {}) =>
        /\ Marked = Reachable({scan.i})
        /\ flood.num_marked = Cardinality(Marked)

Occurrences(name) == Cardinality({k \in 1..Len(cities) : cities[k][1] = name})

\* The names with at least one record of country "DE".
NamesInDe == {cities[k][1] : k \in {j \in 1..Len(cities) : cities[j][2] = "DE"}}

\* C19: each sorting-based aggregation returns the same set of (name, count)
\* pairs as its map-based counterpart, and the _in_de pair lists exactly the
\* names with at least one "DE" record, each with the count of all records of
\* that name.
C19_SortingAgreesWithMap ==
    /\ (frequent["by_sorting"].done /\ frequent["by_map"].done) =>
            Range(frequent["by_sorting"].names) = Range(frequent["by_map"].names)
    /\ (frequent["by_sorting_in_de"].done /\ frequent["by_map_in_de"].done) =>
            Range(frequent["by_sorting_in_de"].names) = Range(frequent["by_map_in_de"].names)
    /\ \A f \in {"by_sorting_in_de", "by_map_in_de"} :
            frequent[f].done =>
                Range(frequent[f].names) = {<<name, Occurrences(name)>> : name \in NamesInDe}
====
